---- MODULE Spec2Model ----
(***************************************************************************)
(* A model of multiscale_read: the sequence facade over scale pyramids     *)
(* (base.py), the n5-viewer / BigDataViewer metadata and their coordinate  *)
(* derivation (ngl_n5.py), the OME-NGFF binding (ome.py) and the reversal  *)
(* and ArrayInfo utilities (utils.py).                                     *)
(*                                                                         *)
(* Python values are modelled as follows.  Optional[T] is None or Some(v). *)
(* Floats are integers (every product in the code is then exact).  A       *)
(* raised exception is a record [status |-> "raise", exc |-> <class>, ...].*)
(* The string f"s{idx}" is the pair <<"s", idx>> and f"dim_{idx}" the pair *)
(* <<"dim_", idx>>: the decimal rendering of an integer is injective.      *)
(***************************************************************************)
EXTENDS Integers, Sequences, FiniteSets, TLC

VARIABLES
    facade,     \* SpecFacade: the constructed NglN5Multiscale / OmeMultiscale
    call,       \* SpecFacade: the last __getitem__ call
    ret,        \* SpecFacade: what that call returned or raised
    attrs,      \* SpecParse: the raw attribute mapping of the group
    parsed,     \* SpecParse: the outcome of the last parse / construction
    coordcall,  \* SpecCoords: the metadata, scale_idx and shape of to_coords
    coords,     \* SpecCoords: what to_coords returned or raised
    heap,       \* SpecReverse: the list objects (axes lists, scale and translation vectors)
    shape0,     \* SpecReverse: the immutable structure of the parsed MultiscaleAttrs
    cur,        \* SpecReverse: reference to the object the next reversal is applied to
    hist,       \* SpecReverse: the calls made so far, with before/after snapshots
    xarr,       \* SpecInfo: the labelled array handed to ArrayInfo.from_xarray
    info        \* SpecInfo: what from_xarray returned or raised

vars == <<facade, call, ret, attrs, parsed, coordcall, coords, heap, shape0, cur,
          hist, xarr, info>>

facadeVars == <<facade, call, ret>>
parseVars == <<attrs, parsed>>
coordVars == <<coordcall, coords>>
reverseVars == <<heap, shape0, cur, hist>>
infoVars == <<xarr, info>>

-----------------------------------------------------------------------------
(* Bounds of the model. *)

MaxLevels == 3
MaxDim == 3
MaxShape == 2
MaxIdx == 4
MaxApply == 3
MaxCoordLen == 3
FacadeDim == 2
MaxParseDim == 2
MaxMultiscales == 2
MaxDatasets == 2

-----------------------------------------------------------------------------
(* Python values. *)

None == [some |-> FALSE]
Some(v) == [some |-> TRUE, val |-> v]

Raise(exc, by) == [status |-> "raise", exc |-> exc, by |-> by]
Return(v) == [status |-> "return", val |-> v]

Min(a, b) == IF a < b THEN a ELSE b
Max(a, b) == IF a > b THEN a ELSE b
Abs(a) == IF a < 0 THEN -a ELSE a

\* seq[idx] for a zero-based Python index: negative indices count from the end.
\* Only used where the index is in [-len, len).
PyItem(s, idx) == IF idx < 0 THEN s[Len(s) + idx + 1] ELSE s[idx + 1]

SeqsUpTo(S, lo, hi) == UNION {[1..k -> S] : k \in lo..hi}

-----------------------------------------------------------------------------
(* Raw attribute mappings (group.attrs) and pydantic's validation of them.  *)
(* A key of the mapping is Absent, Bad (present, but not of the field's     *)
(* type) or Val(v).  pydantic validates the fields one by one into          *)
(* `values` (a field that failed is left out of `values`), then runs every  *)
(* root validator on `values` even when a field has failed, collecting a    *)
(* ValueError it raises into the ValidationError; any other exception a     *)
(* root validator raises leaves parse_obj as it is.                         *)

Absent == [tag |-> "absent"]
Bad == [tag |-> "bad"]
Val(v) == [tag |-> "val", v |-> v]

\* values.get(key): None unless the field validated to a value
ValuesGet(f) == IF f.tag = "val" THEN Some(f.v) ELSE None

\* key in values: the field validated (an Optional field that is absent
\* validates to its default, None)
InValues(f, optional) == f.tag = "val" \/ (optional /\ f.tag = "absent")

FieldError(f, optional) == ~InValues(f, optional)

\* SharedMetadata.check_axes
SharedMetadata_check_axes(values) ==
    LET ca == ValuesGet(values.coordinateArrays)
        ax == ValuesGet(values.axes)
    IN  IF ~ca.some \/ DOMAIN ca.val = {} THEN "ok"
        ELSE IF ~ax.some THEN "ValueError"
        ELSE IF \E k \in DOMAIN ca.val : \A i \in 1..Len(ax.val) : ax.val[i] # k
             THEN "ValueError"
        ELSE "ok"

\* SharedMetadata.coordinate_array
coordinate_array(md, axis) ==
    IF ~md.axes.some \/ ~md.coordinateArrays.some THEN None
    ELSE IF axis \in DOMAIN md.coordinateArrays.val
         THEN Some(md.coordinateArrays.val[axis])
         ELSE None

\* N5ViewerMetadata.check_ndim
N5ViewerMetadata_check_ndim(values) ==
    LET ax == ValuesGet(values.axes)
    IN  IF values.pixelResolution.tag # "val" THEN "KeyError"
        ELSE LET pr_ndim == Len(values.pixelResolution.v.dimensions)
                 ndim == IF ax.some THEN Len(ax.val) ELSE pr_ndim
             IN  IF ndim # pr_ndim THEN "ValueError"
                 ELSE IF values.scales.tag # "val" THEN "KeyError"
                 ELSE IF \E r \in 1..Len(values.scales.v) :
                            Len(values.scales.v[r]) # ndim
                      THEN "ValueError"
                 ELSE "ok"

\* a variant of BigDataViewerMetadata.check_ndim without the test of `units`
BigDataViewerMetadata_check_ndim_NoUnits(values) ==
    LET ax == ValuesGet(values.axes)
    IN  IF values.resolution.tag # "val" THEN "KeyError"
        ELSE LET pr_ndim == Len(values.resolution.v)
                 ndim == IF ax.some THEN Len(ax.val) ELSE pr_ndim
             IN  IF ndim # pr_ndim THEN "ValueError"
                 ELSE IF values.units.tag # "val" THEN "KeyError"
                 ELSE IF values.downsamplingFactors.tag # "val" THEN "KeyError"
                 ELSE IF \E r \in 1..Len(values.downsamplingFactors.v) :
                            Len(values.downsamplingFactors.v[r]) # ndim
                      THEN "ValueError"
                 ELSE "ok"

\* BigDataViewerMetadata.check_ndim
BigDataViewerMetadata_check_ndim(values) ==
    LET ax == ValuesGet(values.axes)
    IN  IF values.resolution.tag # "val" THEN "KeyError"
        ELSE LET pr_ndim == Len(values.resolution.v)
                 ndim == IF ax.some THEN Len(ax.val) ELSE pr_ndim
             IN  IF ndim # pr_ndim THEN "ValueError"
                 ELSE IF values.units.tag # "val" THEN "KeyError"
                 ELSE IF ndim # Len(values.units.v) THEN "ValueError"
                 ELSE IF values.downsamplingFactors.tag # "val" THEN "KeyError"
                 ELSE IF \E r \in 1..Len(values.downsamplingFactors.v) :
                            Len(values.downsamplingFactors.v[r]) # ndim
                      THEN "ValueError"
                 ELSE "ok"

\* N5ViewerMetadata.parse_obj: fields axes, coordinateArrays (inherited),
\* scales, pixelResolution; root validators check_axes, check_ndim.
N5ViewerMetadata_parse_obj(raw) ==
    LET fieldErrors == FieldError(raw.axes, TRUE)
                       \/ FieldError(raw.coordinateArrays, TRUE)
                       \/ FieldError(raw.scales, FALSE)
                       \/ FieldError(raw.pixelResolution, FALSE)
        v1 == SharedMetadata_check_axes(raw)
        v2 == N5ViewerMetadata_check_ndim(raw)
    IN  IF v2 = "KeyError" THEN Raise("KeyError", "N5ViewerMetadata")
        ELSE IF fieldErrors \/ v1 = "ValueError" \/ v2 = "ValueError"
             THEN Raise("ValidationError", "N5ViewerMetadata")
        ELSE Return([cls |-> "N5ViewerMetadata",
                     axes |-> ValuesGet(raw.axes),
                     coordinateArrays |-> ValuesGet(raw.coordinateArrays),
                     scales |-> raw.scales.v,
                     pixelResolution |-> raw.pixelResolution.v])

\* BigDataViewerMetadata.parse_obj: fields axes, coordinateArrays (inherited),
\* downsamplingFactors, resolution, units; root validators check_axes, check_ndim.
BigDataViewerMetadata_parse_obj(raw) ==
    LET fieldErrors == FieldError(raw.axes, TRUE)
                       \/ FieldError(raw.coordinateArrays, TRUE)
                       \/ FieldError(raw.downsamplingFactors, FALSE)
                       \/ FieldError(raw.resolution, FALSE)
                       \/ FieldError(raw.units, FALSE)
        v1 == SharedMetadata_check_axes(raw)
        v2 == BigDataViewerMetadata_check_ndim(raw)
    IN  IF v2 = "KeyError" THEN Raise("KeyError", "BigDataViewerMetadata")
        ELSE IF fieldErrors \/ v1 = "ValueError" \/ v2 = "ValueError"
             THEN Raise("ValidationError", "BigDataViewerMetadata")
        ELSE Return([cls |-> "BigDataViewerMetadata",
                     axes |-> ValuesGet(raw.axes),
                     coordinateArrays |-> ValuesGet(raw.coordinateArrays),
                     downsamplingFactors |-> raw.downsamplingFactors.v,
                     resolution |-> raw.resolution.v,
                     units |-> raw.units.v])

\* N5ViewerMetadata.ndim / PixelResolution.ndim
N5ViewerMetadata_ndim(md) == Len(md.pixelResolution.dimensions)

\* BigDataViewerMetadata.ndim
BigDataViewerMetadata_ndim(md) == Len(md.resolution)

\* N5ViewerMetadata.n_scales
N5ViewerMetadata_n_scales(md) == Len(md.scales)

\* BigDataViewerMetadata.n_scales
BigDataViewerMetadata_n_scales(md) == Len(md.downsamplingFactors)

\* NglN5Multiscale.__init__: the store check, then BigDataViewerMetadata first
\* and, on a ValidationError only, N5ViewerMetadata.
NglN5Multiscale_init(group) ==
    IF ~group.n5store THEN Raise("ValueError", "NglN5Multiscale")
    ELSE LET first == BigDataViewerMetadata_parse_obj(group.attrs)
         IN  IF first.status = "return" THEN Return([group |-> group, metadata |-> first.val])
             ELSE IF first.exc = "ValidationError"
                  THEN LET second == N5ViewerMetadata_parse_obj(group.attrs)
                       IN  IF second.status = "return"
                           THEN Return([group |-> group, metadata |-> second.val])
                           ELSE second
             ELSE first

-----------------------------------------------------------------------------
(* Coordinate descriptors.  A name is an axis name of the metadata or the   *)
(* generated f"dim_{idx}"; the values of a descriptor are a numeric array,  *)
(* a list of label strings, or None.                                        *)

AxisName(s) == [axis |-> s]
DimName(idx) == [dim |-> idx]

NumValues(s) == [num |-> s]
Labels(s) == [labels |-> s]
NoValues == [none |-> TRUE]

\* xr.DataArray(coord_arr, dims=(name,), name=name, attrs=...)
DataArray(name, values, units) ==
    [kind |-> "DataArray", name |-> name, values |-> values, units |-> units]

\* the tuples (name, coord_arr) and (name, coord_arr, {"units": unit})
Tuple2(name, values) == [kind |-> "tuple2", name |-> name, values |-> values]
Tuple3(name, values, units) ==
    [kind |-> "tuple3", name |-> name, values |-> values, units |-> units]

\* np.array(resolution) * row, elementwise
ScaleOf(resolution, row) == [i \in 1..Len(resolution) |-> resolution[i] * row[i]]

\* np.arange(n, dtype=float) * factor
ScaledArange(n, factor) == [k \in 1..n |-> (k - 1) * factor]

\* `if not name: name = f"dim_{idx}"`
NameOrDim(name, idx) == IF name = "" THEN DimName(idx) ELSE AxisName(name)

\* N5ViewerMetadata.to_coords
N5ViewerMetadata_to_coords(md, scale_idx, shape) ==
    LET ndim == N5ViewerMetadata_ndim(md)
        n == Len(md.scales)
    IN  IF Len(shape) # ndim THEN Raise("ValueError", "to_coords")
        ELSE IF ~(-n <= scale_idx /\ scale_idx < n) THEN Raise("IndexError", "to_coords")
        ELSE LET scale == ScaleOf(md.pixelResolution.dimensions, PyItem(md.scales, scale_idx))
                 unit == Some(md.pixelResolution.unit)
                 \* one loop iteration, idx zero-based: the entries it appends
                 Iter(idx) ==
                     LET n5_idx == ndim - idx - 1
                     IN  IF ~md.axes.some
                         THEN LET coord_arr == NumValues(ScaledArange(shape[idx + 1], scale[n5_idx + 1]))
                              IN  << Tuple3(DimName(idx), coord_arr, unit),
                                     DataArray(DimName(idx), coord_arr, unit) >>
                         ELSE LET name == md.axes.val[n5_idx + 1]
                                  coord_arr == coordinate_array(md, name)
                              IN  \* `if coords is not None`: coords is the list, never None
                                  << Tuple2(AxisName(name),
                                            IF coord_arr.some THEN Labels(coord_arr.val)
                                            ELSE NoValues) >>
                 per == IF md.axes.some THEN 1 ELSE 2
             IN  Return([j \in 1..(per * ndim) |-> Iter((j - 1) \div per)[((j - 1) % per) + 1]])

\* BigDataViewerMetadata.to_coords
BigDataViewerMetadata_to_coords(md, scale_idx, shape) ==
    LET ndim == BigDataViewerMetadata_ndim(md)
        n == Len(md.downsamplingFactors)
    IN  IF Len(shape) # ndim THEN Raise("ValueError", "to_coords")
        ELSE IF ~(-n <= scale_idx /\ scale_idx < n) THEN Raise("IndexError", "to_coords")
        ELSE LET scale == ScaleOf(md.resolution, PyItem(md.downsamplingFactors, scale_idx))
                 Iter(idx) ==
                     LET n5_idx == ndim - idx - 1
                         coord_arr == IF md.axes.some
                                      THEN coordinate_array(md, md.axes.val[n5_idx + 1])
                                      ELSE None
                         name == IF md.axes.some
                                 THEN NameOrDim(md.axes.val[n5_idx + 1], idx)
                                 ELSE DimName(idx)
                     IN  IF coord_arr.some
                         THEN DataArray(AxisName(md.axes.val[n5_idx + 1]),
                                        Labels(coord_arr.val), None)
                         ELSE DataArray(name,
                                        NumValues(ScaledArange(shape[idx + 1], scale[n5_idx + 1])),
                                        Some(md.units[n5_idx + 1]))
             IN  Return([j \in 1..ndim |-> Iter(j - 1)])

\* self.metadata.to_coords, dispatched on the metadata's class
to_coords(md, scale_idx, shape) ==
    IF md.cls = "BigDataViewerMetadata"
    THEN BigDataViewerMetadata_to_coords(md, scale_idx, shape)
    ELSE N5ViewerMetadata_to_coords(md, scale_idx, shape)

\* self.metadata.n_scales / ndim
n_scales(md) ==
    IF md.cls = "BigDataViewerMetadata"
    THEN BigDataViewerMetadata_n_scales(md) ELSE N5ViewerMetadata_n_scales(md)

metadata_ndim(md) ==
    IF md.cls = "BigDataViewerMetadata"
    THEN BigDataViewerMetadata_ndim(md) ELSE N5ViewerMetadata_ndim(md)

-----------------------------------------------------------------------------
(* The OME-NGFF binding (ome.py).                                           *)

\* xarray_ome_ngff.transforms_to_coords: one DataArray per axis, the values
\* arange(shape[i]) * (product of the scales) + (sum of the translations),
\* the axis's unit under the attribute key "unit".
RECURSIVE ScaleProduct(_, _)
ScaleProduct(transforms, i) ==
    IF transforms = <<>> THEN 1
    ELSE (IF Head(transforms).type = "scale" THEN Head(transforms).vec[i] ELSE 1)
         * ScaleProduct(Tail(transforms), i)

RECURSIVE TranslationSum(_, _)
TranslationSum(transforms, i) ==
    IF transforms = <<>> THEN 0
    ELSE (IF Head(transforms).type = "translation" THEN Head(transforms).vec[i] ELSE 0)
         + TranslationSum(Tail(transforms), i)

transforms_to_coords(axes, transforms, shape) ==
    [i \in 1..Len(axes) |->
        [kind |-> "DataArray",
         name |-> AxisName(axes[i].name),
         values |-> NumValues([k \in 1..shape[i] |->
                        (k - 1) * ScaleProduct(transforms, i) + TranslationSum(transforms, i)]),
         attrs |-> [unit |-> Some(axes[i].unit), units |-> None],
         quantified |-> FALSE]]

\* transmute_coords: "unit" is renamed to "units"; a coordinate with "units"
\* is quantified
transmute_coords(cs) ==
    [i \in 1..Len(cs) |->
        LET c == cs[i]
            a == IF c.attrs.unit.some
                 THEN [unit |-> None, units |-> c.attrs.unit]
                 ELSE c.attrs
        IN  [c EXCEPT !.attrs = a, !.quantified = a.units.some]]

-----------------------------------------------------------------------------
(* The sequence facade (base.py) and its two bindings.                      *)

\* NglN5Multiscale.__len__ / OmeMultiscale.__len__
FacadeLen(f) ==
    IF f.cls = "NglN5Multiscale" THEN n_scales(f.metadata)
    ELSE Len(f.multiscales.datasets)

\* NglN5Multiscale.ndim / OmeMultiscale.ndim
FacadeNdim(f) ==
    IF f.cls = "NglN5Multiscale" THEN metadata_ndim(f.metadata)
    ELSE Len(f.multiscales.axes)

\* MultiscaleBase._get_item: the bounds check
MultiscaleBase_get_item(f, idx) ==
    IF ~(-FacadeLen(f) < idx /\ idx < FacadeLen(f))
    THEN Raise("IndexError", "MultiscaleBase")
    ELSE Return(None)

\* the dataset name f"s{idx}"
ScaleKey(idx) == [prefix |-> "s", index |-> idx]
PathKey(path) == [path |-> path]

\* self.group[key]
GroupItem(group, key) ==
    IF key \in DOMAIN group.arrays THEN Return(group.arrays[key])
    ELSE Raise("KeyError", "group")

\* xr.DataArray(d_arr, coords, name=arr.name, attrs=arr.attrs): the array
\* read, and the coordinates attached to it
LabelledArray(key, arr, cs) ==
    [key |-> key, name |-> arr.name, attrs |-> arr.attrs, shape |-> arr.shape, coords |-> cs]

\* NglN5Multiscale._get_item
NglN5Multiscale_get_item(f, idx) ==
    LET chk == MultiscaleBase_get_item(f, idx)
    IN  IF chk.status = "raise" THEN chk
        ELSE LET arr == GroupItem(f.group, ScaleKey(idx))
             IN  IF arr.status = "raise" THEN arr
                 ELSE LET cs == to_coords(f.metadata, idx, arr.val.shape)
                      IN  IF cs.status = "raise" THEN cs
                          ELSE Return(LabelledArray(ScaleKey(idx), arr.val, cs.val))

\* OmeMultiscale._get_item
OmeMultiscale_get_item(f, idx) ==
    LET chk == MultiscaleBase_get_item(f, idx)
    IN  IF chk.status = "raise" THEN chk
        ELSE LET ds == PyItem(f.multiscales.datasets, idx)
                 arr == GroupItem(f.group, PathKey(ds.path))
             IN  IF arr.status = "raise" THEN arr
                 ELSE Return(LabelledArray(PathKey(ds.path), arr.val,
                          transmute_coords(transforms_to_coords(
                              f.multiscales.axes, ds.coordinateTransformations,
                              arr.val.shape))))

\* self._get_item
_get_item(f, idx) ==
    IF f.cls = "NglN5Multiscale" THEN NglN5Multiscale_get_item(f, idx)
    ELSE OmeMultiscale_get_item(f, idx)

\* slice(start, stop, step).indices(length), as CPython computes it
SliceIndices(sl, length) ==
    IF sl.step.some /\ sl.step.val = 0 THEN Raise("ValueError", "slice.indices")
    ELSE LET step == IF sl.step.some THEN sl.step.val ELSE 1
             lower == IF step < 0 THEN -1 ELSE 0
             upper == IF step < 0 THEN length - 1 ELSE length
             Clip(v, dflt) ==
                 IF ~v.some THEN dflt
                 ELSE IF v.val < 0 THEN Max(v.val + length, lower)
                 ELSE Min(v.val, upper)
         IN  Return([start |-> Clip(sl.start, IF step < 0 THEN upper ELSE lower),
                     stop |-> Clip(sl.stop, IF step < 0 THEN lower ELSE upper),
                     stride |-> step])

\* the loop `while start < stop` of MultiscaleBase.__getitem__
RECURSIVE SliceLoop(_, _, _, _, _)
SliceLoop(f, start, stop, stride, out) ==
    IF start < stop
    THEN LET r == _get_item(f, start)
         IN  IF r.status = "raise" THEN r
             ELSE SliceLoop(f, start + stride, stop, stride, Append(out, r.val))
    ELSE Return(out)

\* MultiscaleBase.__getitem__
MultiscaleBase_getitem(f, idx) ==
    IF idx.op = "int" THEN _get_item(f, idx.idx)
    ELSE LET ind == SliceIndices(idx.slice, FacadeLen(f))
         IN  IF ind.status = "raise" THEN ind
             ELSE SliceLoop(f, ind.val.start, ind.val.stop, ind.val.stride, <<>>)

-----------------------------------------------------------------------------
(* The data the specifications draw their inputs from.                      *)

Idle == [status |-> "idle"]

AxisNameList == <<"x", "y", "z", "t", "c", "v">>
UnitList == <<"nm", "um", "mm", "m", "s", "px">>
PathList == <<"full", "half", "quarter", "eighth", "sixteenth", "tiny">>

Prefix(s, d) == [i \in 1..d |-> s[i]]

\* a base resolution vector of d axes: 4, 5, 6, ...
Res(d) == [i \in 1..d |-> 3 + i]

\* the scale row of level k (one-based): 1,1,1 for the first level, then
\* k, k+1, k+2, ...
Row(k, d) == [i \in 1..d |-> IF k = 1 THEN 1 ELSE k + i - 1]

Rows(n, d) == [k \in 1..n |-> Row(k, d)]

\* the shape of the array of level k (zero-based), d axes
LevelShape(k, d) == [i \in 1..d |-> ((i + k) % MaxShape) + 1]

NoAttrs ==
    [axes |-> Absent, coordinateArrays |-> Absent, scales |-> Absent,
     pixelResolution |-> Absent, downsamplingFactors |-> Absent,
     resolution |-> Absent, units |-> Absent]

\* BigDataViewer attributes of n levels and d axes
BdvAttrs(n, d) ==
    [NoAttrs EXCEPT !.downsamplingFactors = Val(Rows(n, d)),
                    !.resolution = Val(Res(d)),
                    !.units = Val(Prefix(UnitList, d))]

\* n5-viewer attributes of n levels and d axes
N5vAttrs(n, d) ==
    [NoAttrs EXCEPT !.scales = Val(Rows(n, d)),
                    !.pixelResolution = Val([unit |-> "nm", dimensions |-> Res(d)])]

\* n5-viewer attributes that also carry BigDataViewer's `resolution` and
\* `units`, of different lengths
MixedAttrs(n, d) ==
    [N5vAttrs(n, d) EXCEPT !.resolution = Val(Res(d + 1)),
                           !.units = Val(Prefix(UnitList, d))]

\* an N5 group with the datasets s0 .. s{n-1}
N5Group(rawattrs, n, d) ==
    [n5store |-> TRUE,
     attrs |-> rawattrs,
     arrays |-> [key \in {ScaleKey(k) : k \in 0..(n - 1)} |->
                    [shape |-> LevelShape(key.index, d), name |-> key,
                     attrs |-> [level |-> key.index]]]]

\* an OME-NGFF group of n datasets and d axes, and its parsed multiscale
OmeGroup(n, d) ==
    [n5store |-> FALSE,
     attrs |-> Idle,
     arrays |-> [key \in {PathKey(PathList[k]) : k \in 1..n} |->
                    LET k == CHOOSE j \in 1..n : PathList[j] = key.path
                    IN  [shape |-> LevelShape(k - 1, d), name |-> key,
                         attrs |-> [level |-> k - 1]]]]

OmeMultiscales(n, d) ==
    [axes |-> [i \in 1..d |-> [name |-> AxisNameList[i], type |-> "space",
                               unit |-> UnitList[i]]],
     datasets |-> [k \in 1..n |->
                    [path |-> PathList[k],
                     coordinateTransformations |->
                        << [type |-> "scale", vec |-> Row(k, d)],
                           [type |-> "translation", vec |-> [i \in 1..d |-> k + i]] >>]]]

\* OmeMultiscale.__init__
OmeMultiscale_init(group, multiscales) ==
    [cls |-> "OmeMultiscale", group |-> group, multiscales |-> multiscales]

\* NglN5Multiscale(group), for a group whose construction succeeds
NglN5Facade(group) ==
    LET r == NglN5Multiscale_init(group)
    IN  [cls |-> "NglN5Multiscale", group |-> r.val.group, metadata |-> r.val.metadata]

Facades ==
    UNION {{ NglN5Facade(N5Group(BdvAttrs(n, FacadeDim), n, FacadeDim)),
             NglN5Facade(N5Group(MixedAttrs(n, FacadeDim), n, FacadeDim)),
             OmeMultiscale_init(OmeGroup(n, FacadeDim), OmeMultiscales(n, FacadeDim)) }
           : n \in 0..MaxLevels}

OptIdx == {None} \cup {Some(i) : i \in (-MaxIdx)..MaxIdx}
OptStep == {None} \cup {Some(i) : i \in -2..2}

FacadeIdle == facade = Idle /\ call = Idle /\ ret = Idle
ParseIdle == attrs = Idle /\ parsed = Idle
CoordsIdle == coordcall = Idle /\ coords = Idle
ReverseIdle == heap = <<>> /\ shape0 = Idle /\ cur = Idle /\ hist = <<>>
InfoIdle == xarr = Idle /\ info = Idle

-----------------------------------------------------------------------------
(* SpecFacade: a constructed facade and the calls of __getitem__.           *)

InitFacade ==
    /\ facade \in Facades
    /\ call = [op |-> "none"]
    /\ ret = Idle
    /\ ParseIdle /\ CoordsIdle /\ ReverseIdle /\ InfoIdle

\* facade[i]
GetItem ==
    /\ facade # Idle
    /\ \E i \in (-MaxIdx)..MaxIdx :
        /\ call' = [op |-> "int", idx |-> i]
        /\ ret' = MultiscaleBase_getitem(facade, call')
    /\ UNCHANGED <<facade, parseVars, coordVars, reverseVars, infoVars>>

\* facade[start:stop:step]
GetSlice ==
    /\ facade # Idle
    /\ \E start \in OptIdx, stop \in OptIdx, step \in OptStep :
        /\ call' = [op |-> "slice", slice |-> [start |-> start, stop |-> stop, step |-> step]]
        /\ ret' = MultiscaleBase_getitem(facade, call')
    /\ UNCHANGED <<facade, parseVars, coordVars, reverseVars, infoVars>>

NextFacade == GetItem \/ GetSlice

SpecFacade == InitFacade /\ [][NextFacade]_vars

\* range(start, stop, step) as a sequence
PyRange(start, stop, step) ==
    LET cnt == IF step > 0
               THEN (IF stop > start THEN (stop - start + step - 1) \div step ELSE 0)
               ELSE (IF start > stop THEN (start - stop - step - 1) \div (-step) ELSE 0)
    IN  [j \in 1..cnt |-> start + (j - 1) * step]

\* C1: get(i) raises IndexError if and only if i is outside [-n, n), n the
\* facade's length.
C1_IndexErrorIffOutside ==
    call.op = "int" =>
        ((ret.status = "raise" /\ ret.exc = "IndexError")
            <=> ~(-FacadeLen(facade) <= call.idx /\ call.idx < FacadeLen(facade)))

\* C2: a negative index that passes the bounds check resolves the same
\* level as get(n + i): the same dataset is looked up and the same level's
\* scale data gives the coordinates.
C2_NegativeIndexSameLevel ==
    (/\ call.op = "int"
     /\ call.idx < 0
     /\ MultiscaleBase_get_item(facade, call.idx).status = "return")
        => ret = _get_item(facade, FacadeLen(facade) + call.idx)

\* C3: slicing returns [get(k) for k in range(*slice.indices(n))].
C3_SliceIsPythonSlice ==
    (call.op = "slice" /\ ~(call.slice.step.some /\ call.slice.step.val = 0)) =>
        LET ind == SliceIndices(call.slice, FacadeLen(facade)).val
            r == PyRange(ind.start, ind.stop, ind.stride)
        IN  ret = Return([j \in 1..Len(r) |-> _get_item(facade, r[j]).val])

-----------------------------------------------------------------------------
(* SpecParse: a group's raw attributes, parsed by either metadata class or  *)
(* by the construction of an NglN5Multiscale.                               *)

CoordLabels == <<"a", "b">>

RawAxes == {Absent, Bad} \cup {Val(Prefix(AxisNameList, d)) : d \in 1..MaxParseDim}

RawCoordinateArrays ==
    {Absent, Val([k \in {} |-> CoordLabels]), Val([k \in {"x"} |-> CoordLabels]),
     Val([k \in {"q"} |-> CoordLabels])}

RawRows ==
    {Absent, Val(<<>>)}
    \cup {Val(<<Row(1, d1), Row(2, d2)>>) : d1 \in 1..MaxParseDim, d2 \in 1..MaxParseDim}

RawPixelResolution ==
    {Absent} \cup {Val([unit |-> "nm", dimensions |-> Res(d)]) : d \in 1..MaxParseDim}

RawResolution == {Absent} \cup {Val(Res(d)) : d \in 1..MaxParseDim}

RawUnits == {Absent} \cup {Val(Prefix(UnitList, d)) : d \in 1..MaxParseDim}

RawAttrs ==
    [axes : RawAxes, coordinateArrays : RawCoordinateArrays, scales : RawRows,
     pixelResolution : RawPixelResolution, downsamplingFactors : RawRows,
     resolution : RawResolution, units : RawUnits]

\* the groups: an N5 store with any attributes, or another store
ParseGroups ==
    {[n5store |-> TRUE, attrs |-> a] : a \in RawAttrs}
    \cup {[n5store |-> FALSE, attrs |-> a] :
            a \in {BdvAttrs(2, MaxParseDim), N5vAttrs(2, MaxParseDim), NoAttrs}}

InitParse ==
    /\ attrs \in ParseGroups
    /\ parsed = Idle
    /\ FacadeIdle /\ CoordsIdle /\ ReverseIdle /\ InfoIdle

\* BigDataViewerMetadata.parse_obj(group.attrs)
ParseBigDataViewer ==
    /\ attrs # Idle
    /\ parsed = Idle
    /\ parsed' = [op |-> "BigDataViewerMetadata", out |-> BigDataViewerMetadata_parse_obj(attrs.attrs)]
    /\ UNCHANGED <<attrs, facadeVars, coordVars, reverseVars, infoVars>>

\* N5ViewerMetadata.parse_obj(group.attrs)
ParseN5Viewer ==
    /\ attrs # Idle
    /\ parsed = Idle
    /\ parsed' = [op |-> "N5ViewerMetadata", out |-> N5ViewerMetadata_parse_obj(attrs.attrs)]
    /\ UNCHANGED <<attrs, facadeVars, coordVars, reverseVars, infoVars>>

\* NglN5Multiscale(group)
Construct ==
    /\ attrs # Idle
    /\ parsed = Idle
    /\ parsed' = [op |-> "NglN5Multiscale", out |-> NglN5Multiscale_init(attrs)]
    /\ UNCHANGED <<attrs, facadeVars, coordVars, reverseVars, infoVars>>

NextParse == ParseBigDataViewer \/ ParseN5Viewer \/ Construct

SpecParse == InitParse /\ [][NextParse]_vars

\* the dimensionalities a parsed metadata object states
MetadataLens(md) ==
    (IF md.axes.some THEN {Len(md.axes.val)} ELSE {})
    \cup (IF md.cls = "BigDataViewerMetadata"
          THEN {Len(md.resolution), Len(md.units)}
               \cup {Len(md.downsamplingFactors[r]) : r \in 1..Len(md.downsamplingFactors)}
          ELSE {Len(md.pixelResolution.dimensions)}
               \cup {Len(md.scales[r]) : r \in 1..Len(md.scales)})

LensOf(f) == IF f.tag = "val" THEN {Len(f.v)} ELSE {}
RowLensOf(f) == IF f.tag = "val" THEN {Len(f.v[r]) : r \in 1..Len(f.v)} ELSE {}

\* the dimensionalities a raw mapping states, read as the given variant
RawLens(raw, cls) ==
    LensOf(raw.axes)
    \cup (IF cls = "BigDataViewerMetadata"
          THEN LensOf(raw.resolution) \cup LensOf(raw.units)
               \cup RowLensOf(raw.downsamplingFactors)
          ELSE (IF raw.pixelResolution.tag = "val"
                THEN {Len(raw.pixelResolution.v.dimensions)} ELSE {})
               \cup RowLensOf(raw.scales))

\* C4: a metadata object that either variant's parse accepts has one
\* dimensionality: axes (when given), base resolution, units (BigDataViewer)
\* and every scale row have length ndim(); a raw mapping in which two of
\* these lengths differ is rejected by that variant's parse.
C4_AcceptedMetadataAgrees ==
    parsed # Idle /\ parsed.op \in {"BigDataViewerMetadata", "N5ViewerMetadata"} =>
        /\ parsed.out.status = "return" =>
              MetadataLens(parsed.out.val) = {metadata_ndim(parsed.out.val)}
        /\ Cardinality(RawLens(attrs.attrs, parsed.op)) > 1 =>
              parsed.out.status = "raise"

C4_Witness ==
    /\ parsed # Idle
    /\ parsed.op = "BigDataViewerMetadata"
    /\ parsed.out.status = "return"
    /\ parsed.out.val.axes.some
    /\ Len(parsed.out.val.downsamplingFactors) = 2
    /\ metadata_ndim(parsed.out.val) = 2

\* C5: construction on an N5 store takes the BigDataViewer metadata when the
\* attributes validate as such; otherwise the n5-viewer metadata when they
\* validate as that; and when both fail, it fails with the n5-viewer
\* parse's failure, never with the BigDataViewer parse's.
C5_DispatchOrder ==
    (parsed # Idle /\ parsed.op = "NglN5Multiscale" /\ attrs.n5store) =>
        LET first == BigDataViewerMetadata_parse_obj(attrs.attrs)
            second == N5ViewerMetadata_parse_obj(attrs.attrs)
        IN  /\ first.status = "return" =>
                (parsed.out.status = "return" /\ parsed.out.val.metadata = first.val)
            /\ (first.status = "raise" /\ second.status = "return") =>
                (parsed.out.status = "return" /\ parsed.out.val.metadata = second.val)
            /\ (first.status = "raise" /\ second.status = "raise") =>
                (parsed.out.status = "raise" /\ parsed.out.by = "N5ViewerMetadata")

-----------------------------------------------------------------------------
(* SpecCoords: to_coords of a validated metadata object.                    *)

AxesChoices(d) ==
    {Prefix(AxisNameList, d), [Prefix(AxisNameList, d) EXCEPT ![1] = ""]}

\* the optional neuroglancer keys: no axes, or axes with label arrays for
\* any subset of them
SharedChoices(d) ==
    {[axes |-> Absent, coordinateArrays |-> Absent]}
    \cup {[axes |-> Val(ax), coordinateArrays |-> Absent] : ax \in AxesChoices(d)}
    \cup UNION {{[axes |-> Val(ax), coordinateArrays |-> Val([k \in K |-> CoordLabels])]
                    : K \in SUBSET {ax[i] : i \in 1..d}} : ax \in AxesChoices(d)}

WithShared(raw, sh) ==
    [raw EXCEPT !.axes = sh.axes, !.coordinateArrays = sh.coordinateArrays]

CoordAttrs(cls) ==
    UNION {{WithShared(IF cls = "BigDataViewerMetadata" THEN BdvAttrs(n, d) ELSE N5vAttrs(n, d), sh)
                : sh \in SharedChoices(d)}
           : n \in 0..MaxLevels, d \in 1..MaxDim}

\* the metadata objects: whatever either parse accepts
CoordMetadata ==
    {BigDataViewerMetadata_parse_obj(a).val : a \in CoordAttrs("BigDataViewerMetadata")}
    \cup {N5ViewerMetadata_parse_obj(a).val : a \in CoordAttrs("N5ViewerMetadata")}

Shapes == SeqsUpTo(0..MaxShape, 1, MaxDim)

InitCoords ==
    /\ coordcall \in [md : CoordMetadata, called : {FALSE}]
    /\ coords = Idle
    /\ FacadeIdle /\ ParseIdle /\ ReverseIdle /\ InfoIdle

\* metadata.to_coords(scale_idx, shape) on BigDataViewer metadata
BigDataViewerToCoords ==
    /\ coordcall # Idle
    /\ ~coordcall.called
    /\ coordcall.md.cls = "BigDataViewerMetadata"
    /\ \E scale_idx \in (-MaxIdx)..MaxIdx, shape \in Shapes :
        /\ coordcall' = [md |-> coordcall.md, called |-> TRUE,
                         scale_idx |-> scale_idx, shape |-> shape]
        /\ coords' = BigDataViewerMetadata_to_coords(coordcall.md, scale_idx, shape)
    /\ UNCHANGED <<facadeVars, parseVars, reverseVars, infoVars>>

\* metadata.to_coords(scale_idx, shape) on n5-viewer metadata
N5ViewerToCoords ==
    /\ coordcall # Idle
    /\ ~coordcall.called
    /\ coordcall.md.cls = "N5ViewerMetadata"
    /\ \E scale_idx \in (-MaxIdx)..MaxIdx, shape \in Shapes :
        /\ coordcall' = [md |-> coordcall.md, called |-> TRUE,
                         scale_idx |-> scale_idx, shape |-> shape]
        /\ coords' = N5ViewerMetadata_to_coords(coordcall.md, scale_idx, shape)
    /\ UNCHANGED <<facadeVars, parseVars, reverseVars, infoVars>>

NextCoords == BigDataViewerToCoords \/ N5ViewerToCoords

SpecCoords == InitCoords /\ [][NextCoords]_vars

\* the metadata's base resolution, level rows and per-axis unit (one-based
\* metadata axis j)
BaseResolution(md) ==
    IF md.cls = "BigDataViewerMetadata" THEN md.resolution ELSE md.pixelResolution.dimensions
LevelRows(md) ==
    IF md.cls = "BigDataViewerMetadata" THEN md.downsamplingFactors ELSE md.scales
AxisUnit(md, j) ==
    IF md.cls = "BigDataViewerMetadata" THEN md.units[j] ELSE md.pixelResolution.unit

\* to_coords was called with a valid level index and a shape of ndim axes
ValidCoordCall ==
    /\ coordcall # Idle
    /\ coordcall.called
    /\ 0 <= coordcall.scale_idx
    /\ coordcall.scale_idx < n_scales(coordcall.md)
    /\ Len(coordcall.shape) = metadata_ndim(coordcall.md)

\* the computed values of array axis i (one-based): k * resolution * factor
\* of metadata axis ndim - i + 1
ComputedValues(md, scale_idx, shape, i) ==
    LET j == metadata_ndim(md) - i + 1
    IN  NumValues([k \in 1..shape[i] |->
            (k - 1) * BaseResolution(md)[j] * LevelRows(md)[scale_idx + 1][j]])

HasOverride(md, i) ==
    md.axes.some /\ coordinate_array(md, md.axes.val[metadata_ndim(md) - i + 1]).some

\* C6: to_coords returns exactly ndim descriptors, one per array axis, and
\* the descriptor of an axis without label override holds shape[i] values
\* k * base_resolution * level_factor of the mirrored metadata axis, with
\* that axis's unit; with and without an axis-name list.
C6_ComputedCoordinates ==
    ValidCoordCall =>
        LET md == coordcall.md
        IN  /\ coords.status = "return"
            /\ Len(coords.val) = metadata_ndim(md)
            /\ \A i \in 1..metadata_ndim(md) :
                  ~HasOverride(md, i) =>
                      /\ coords.val[i].values
                            = ComputedValues(md, coordcall.scale_idx, coordcall.shape, i)
                      /\ coords.val[i].units = Some(AxisUnit(md, metadata_ndim(md) - i + 1))

\* C10: with an axis-name list, an axis with a label override gets the label
\* list verbatim and an axis without one gets the computed coordinates with
\* its unit, never a descriptor without values.
C10_OverridePerAxis ==
    (ValidCoordCall /\ coordcall.md.axes.some) =>
        LET md == coordcall.md
        IN  /\ coords.status = "return"
            /\ Len(coords.val) = metadata_ndim(md)
            /\ \A i \in 1..metadata_ndim(md) :
                  IF HasOverride(md, i)
                  THEN coords.val[i].values
                         = Labels(coordinate_array(md, md.axes.val[metadata_ndim(md) - i + 1]).val)
                  ELSE /\ coords.val[i].values
                            = ComputedValues(md, coordcall.scale_idx, coordcall.shape, i)
                       /\ coords.val[i].units = Some(AxisUnit(md, metadata_ndim(md) - i + 1))

-----------------------------------------------------------------------------
(* The reversal utilities (utils.py; ome.py repeats them).                  *)
(*                                                                          *)
(* The functions mutate lists in place, so the lists live in a heap.  The   *)
(* heap is a sequence of object graphs: entry k holds the lists of the k-th *)
(* MultiscaleAttrs / Multiscale / CoordinateTransform object graph that was *)
(* created (graph 1 by parsing, the others by copy(deep=True)), keyed by    *)
(* the list's place in the graph: P(m, 0, 0) is the axes list of            *)
(* multiscale m, P(m, 0, j) the vector of its j-th global transformation    *)
(* and P(m, d, j) the vector of the j-th transformation of its dataset d.   *)
(* What never changes (how many multiscales, datasets and transformations   *)
(* there are, and each transformation's class) is the structure `sh`.       *)
(* A reference names a graph and the place of the referenced object in it.  *)

P(m, d, j) == [ms |-> m, ds |-> d, ct |-> j]

Ref(obj, kind, at) == [obj |-> obj, kind |-> kind, at |-> at]

GlobalPaths(sh, m) ==
    IF sh.multiscales[m].cts.some
    THEN [j \in 1..Len(sh.multiscales[m].cts.val) |-> P(m, 0, j)]
    ELSE <<>>

RECURSIVE DatasetPaths(_, _, _)
DatasetPaths(sh, m, d) ==
    IF d > Len(sh.multiscales[m].datasets) THEN <<>>
    ELSE [j \in 1..Len(sh.multiscales[m].datasets[d]) |-> P(m, d, j)]
         \o DatasetPaths(sh, m, d + 1)

Range(s) == {s[i] : i \in 1..Len(s)}

MultiscalePaths(sh, m) ==
    {P(m, 0, 0)} \cup Range(GlobalPaths(sh, m)) \cup Range(DatasetPaths(sh, m, 1))

\* the lists reachable from the referenced object
SubPaths(sh, ref) ==
    IF ref.kind = "attrs" THEN UNION {MultiscalePaths(sh, m) : m \in 1..Len(sh.multiscales)}
    ELSE IF ref.kind = "multiscale" THEN MultiscalePaths(sh, ref.at.ms)
    ELSE {ref.at}

\* the class of the object that owns the list at p
TypeAt(sh, p) ==
    IF p.ct = 0 THEN "axes"
    ELSE IF p.ds = 0 THEN sh.multiscales[p.ms].cts.val[p.ct]
    ELSE sh.multiscales[p.ms].datasets[p.ds][p.ct]

\* a variant of the copy that shares the lists with the original
DeepCopyShared(sh, h, ref) == [heap |-> h, ref |-> ref]

\* obj.copy(deep=True): a new graph holding copies of the reachable lists
DeepCopy(sh, h, ref) ==
    [heap |-> Append(h, [p \in SubPaths(sh, ref) |-> h[ref.obj][p]]),
     ref |-> [ref EXCEPT !.obj = Len(h) + 1]]

\* a variant of list.reverse() that moves the first entry last instead
RotateLeft(s) == [i \in 1..Len(s) |-> s[(i % Len(s)) + 1]]

\* list.reverse()
ListReverse(s) == [i \in 1..Len(s) |-> s[Len(s) - i + 1]]

\* the list at p of graph obj, reversed in place
ReverseAt(h, obj, p) == [h EXCEPT ![obj][p] = ListReverse(@)]

\* reverse_coordinate_transformation
reverse_coordinate_transformation(sh, h, ref, inplace) ==
    LET c == IF ~inplace THEN DeepCopy(sh, h, ref) ELSE [heap |-> h, ref |-> ref]
        type == TypeAt(sh, ref.at)
    IN  [heap |-> IF type = "VectorScaleTransform" THEN ReverseAt(c.heap, c.ref.obj, ref.at)
                  ELSE IF type = "VectorTranslationTransform"
                       THEN ReverseAt(c.heap, c.ref.obj, ref.at)
                  ELSE c.heap,
         ref |-> c.ref]

\* `for ct in ...: reverse_coordinate_transformation(ct)`
RECURSIVE ReverseEach(_, _, _, _)
ReverseEach(sh, h, obj, paths) ==
    IF paths = <<>> THEN h
    ELSE ReverseEach(sh,
            reverse_coordinate_transformation(sh, h, Ref(obj, "transform", Head(paths)), TRUE).heap,
            obj, Tail(paths))

\* reverse_multiscale
reverse_multiscale(sh, h, ref, inplace) ==
    LET c == IF ~inplace THEN DeepCopy(sh, h, ref) ELSE [heap |-> h, ref |-> ref]
        m == ref.at.ms
        h1 == ReverseAt(c.heap, c.ref.obj, P(m, 0, 0))
        h2 == ReverseEach(sh, h1, c.ref.obj, GlobalPaths(sh, m))
        h3 == ReverseEach(sh, h2, c.ref.obj, DatasetPaths(sh, m, 1))
    IN  [heap |-> h3, ref |-> c.ref]

\* `for mscale in multiscale_attrs.multiscales: reverse_multiscale(mscale)`
RECURSIVE ReverseEachMultiscale(_, _, _, _)
ReverseEachMultiscale(sh, h, obj, m) ==
    IF m > Len(sh.multiscales) THEN h
    ELSE ReverseEachMultiscale(sh,
            reverse_multiscale(sh, h, Ref(obj, "multiscale", P(m, 0, 0)), TRUE).heap,
            obj, m + 1)

\* reverse_multiscale_attrs
reverse_multiscale_attrs(sh, h, ref, inplace) ==
    LET c == IF ~inplace THEN DeepCopy(sh, h, ref) ELSE [heap |-> h, ref |-> ref]
    IN  [heap |-> ReverseEachMultiscale(sh, c.heap, c.ref.obj, 1), ref |-> c.ref]

-----------------------------------------------------------------------------
(* SpecReverse: a parsed MultiscaleAttrs and a chain of reversals, each     *)
(* applied to the result of the one before.                                 *)

TransformLists ==
    { <<"VectorScaleTransform">>,
      <<"VectorScaleTransform", "VectorTranslationTransform">>,
      <<"IdentityTransform">> }

\* the structures: every multiscale with the same dimensionality, global
\* transformations and per-dataset transformations
Structures ==
    {[ndim |-> d,
      multiscales |-> [m \in 1..nm |-> [cts |-> g, datasets |-> [k \in 1..nd |-> t]]]]
        : d \in 1..MaxDim, nm \in 1..MaxMultiscales, nd \in 1..MaxDatasets,
          g \in {None} \cup {Some(t) : t \in TransformLists}, t \in TransformLists}

\* the list the parse creates at p: distinct entries, not a palindrome
ParsedList(sh, p) ==
    IF TypeAt(sh, p) = "IdentityTransform" THEN <<>>
    ELSE [i \in 1..sh.ndim |-> 1000 * p.ms + 100 * p.ds + 10 * p.ct + i]

ParsedHeap(sh) ==
    << [p \in SubPaths(sh, Ref(1, "attrs", P(0, 0, 0))) |-> ParsedList(sh, p)] >>

\* the objects of the parsed graph a caller can hand to a reversal
Targets(sh) ==
    {Ref(1, "attrs", P(0, 0, 0))}
    \cup {Ref(1, "multiscale", P(m, 0, 0)) : m \in 1..Len(sh.multiscales)}
    \cup {Ref(1, "transform", p) :
            p \in {q \in SubPaths(sh, Ref(1, "attrs", P(0, 0, 0))) : q.ct > 0}}

\* the lists reachable from ref, by place
Value(sh, h, ref) == [p \in SubPaths(sh, ref) |-> h[ref.obj][p]]

InitReverse ==
    /\ shape0 \in Structures
    /\ heap = ParsedHeap(shape0)
    /\ cur \in Targets(shape0)
    /\ hist = <<>>
    /\ FacadeIdle /\ ParseIdle /\ CoordsIdle /\ InfoIdle

Record(fn, inplace, r) ==
    /\ heap' = r.heap
    /\ cur' = r.ref
    /\ hist' = Append(hist, [fn |-> fn, inplace |-> inplace, arg |-> cur,
                             before |-> Value(shape0, heap, cur), result |-> r.ref])
    /\ UNCHANGED <<shape0, facadeVars, parseVars, coordVars, infoVars>>

ReverseCoordinateTransformation ==
    /\ cur # Idle
    /\ Len(hist) < MaxApply
    /\ cur.kind = "transform"
    /\ \E inplace \in BOOLEAN :
        Record("reverse_coordinate_transformation", inplace,
               reverse_coordinate_transformation(shape0, heap, cur, inplace))

ReverseMultiscale ==
    /\ cur # Idle
    /\ Len(hist) < MaxApply
    /\ cur.kind = "multiscale"
    /\ \E inplace \in BOOLEAN :
        Record("reverse_multiscale", inplace,
               reverse_multiscale(shape0, heap, cur, inplace))

ReverseMultiscaleAttrs ==
    /\ cur # Idle
    /\ Len(hist) < MaxApply
    /\ cur.kind = "attrs"
    /\ \E inplace \in BOOLEAN :
        Record("reverse_multiscale_attrs", inplace,
               reverse_multiscale_attrs(shape0, heap, cur, inplace))

NextReverse == ReverseCoordinateTransformation \/ ReverseMultiscale \/ ReverseMultiscaleAttrs

SpecReverse == InitReverse /\ [][NextReverse]_vars

\* every axes list and every scale / translation vector of v reversed
ReversedValue(sh, v) ==
    [p \in DOMAIN v |->
        IF TypeAt(sh, p) \in {"axes", "VectorScaleTransform", "VectorTranslationTransform"}
        THEN [i \in 1..Len(v[p]) |-> v[p][Len(v[p]) - i + 1]]
        ELSE v[p]]

LastCall == hist[Len(hist)]

\* C7: reverse with inplace=False returns a new instance whose axes list and
\* scale / translation vectors are the reverse of the input's, and leaves the
\* input's lists as they were.
C7_CopyReversedInputUntouched ==
    (hist # <<>> /\ ~LastCall.inplace) =>
        /\ LastCall.result.obj # LastCall.arg.obj
        /\ Value(shape0, heap, LastCall.result) = ReversedValue(shape0, LastCall.before)
        /\ Value(shape0, heap, LastCall.arg) = LastCall.before

C7_Witness ==
    /\ hist # <<>>
    /\ ~LastCall.inplace
    /\ LastCall.fn = "reverse_multiscale_attrs"
    /\ shape0.ndim >= 2
    /\ Len(shape0.multiscales) = 2
    /\ shape0.multiscales[1].cts = Some(<<"VectorScaleTransform", "VectorTranslationTransform">>)
    /\ Len(shape0.multiscales[1].datasets) = 2
    /\ Value(shape0, heap, LastCall.result) # LastCall.before

\* C8: two reversals, the second applied to the result of the first,
\* restore the axis order and every scale and translation vector.
C8_ReverseTwiceRestores ==
    Len(hist) >= 2 =>
        Value(shape0, heap, LastCall.result) = hist[Len(hist) - 1].before

C8_Witness ==
    /\ Len(hist) = 2
    /\ LastCall.fn = "reverse_multiscale"
    /\ shape0.ndim = MaxDim
    /\ Len(shape0.multiscales[1].datasets) = 2
    /\ shape0.multiscales[1].cts = Some(<<"VectorScaleTransform", "VectorTranslationTransform">>)
    /\ shape0.multiscales[1].datasets[1] = <<"VectorScaleTransform", "VectorTranslationTransform">>
    /\ Value(shape0, heap, hist[1].result) # hist[1].before

-----------------------------------------------------------------------------
(* ArrayInfo (utils.py).  Tolerances are counted in units of 1e-8, so that  *)
(* DEFAULT_ATOL = 1e-8 is 1 and DEFAULT_RTOL = 1e-5 is 1000; coordinate     *)
(* values are integers.                                                     *)

DEFAULT_RTOL == 1000
DEFAULT_ATOL == 1
TolScale == 10 ^ 8

SetMin(S) == CHOOSE x \in S : \A y \in S : x <= y
SetMax(S) == CHOOSE x \in S : \A y \in S : x >= y

\* ArrayInfo(*args): the NamedTuple has the five fields offset, resolution,
\* units, shape, order, none with a default
ArrayInfo_new(args) ==
    IF Len(args) # Len(<<"offset", "resolution", "units", "shape", "order">>)
    THEN Raise("TypeError", "ArrayInfo")
    ELSE Return([offset |-> args[1], resolution |-> args[2], units |-> args[3],
                 shape |-> args[4], order |-> args[5]])

\* len(c_arr)
CoordLen(c) == IF c.numeric THEN Len(c.values.num) ELSE Len(c.values.labels)

\* the body of the loop of from_xarray for one coordinate array, after
\* order, shape and units are recorded: the offset and resolution, or the
\* exception raised
AxisResolution(c, tol) ==
    IF ~c.numeric THEN Return([offset |-> None, resolution |-> None])
    ELSE IF CoordLen(c) = 0 THEN Raise("IndexError", "c_arr[0]")
    ELSE LET diffs == {c.values.num[i + 1] - c.values.num[i] : i \in 1..(CoordLen(c) - 1)}
             res == IF ~tol.some
                    THEN (IF CoordLen(c) < 2 THEN Raise("IndexError", "c_arr[1]")
                          ELSE Return(c.values.num[2] - c.values.num[1]))
                    ELSE IF diffs = {} THEN Raise("ValueError", "ptp")
                    ELSE LET rtol == IF tol.val.rtol.some THEN tol.val.rtol.val ELSE DEFAULT_RTOL
                             atol == IF tol.val.atol.some THEN tol.val.atol.val ELSE DEFAULT_ATOL
                         IN  IF (SetMax(diffs) - SetMin(diffs)) * TolScale
                                    > atol + Abs(SetMin(diffs)) * rtol
                             THEN Raise("ValueError", "Resolution is inconsistent")
                             ELSE Return(SetMin(diffs))
         IN  IF res.status = "raise" THEN res
             ELSE IF res.val <= 0
                  THEN Raise("ValueError", "Resolution is not monotonically increasing")
             ELSE Return([offset |-> Some(c.values.num[1]), resolution |-> Some(res.val)])

NoDict == [k \in {} |-> None]

\* the loop `for d, c_arr in arr.coords.items()`
RECURSIVE FromXarrayLoop(_, _, _, _)
FromXarrayLoop(cs, k, tol, acc) ==
    IF k > Len(cs) THEN Return(acc)
    ELSE LET c == cs[k]
             r == AxisResolution(c, tol)
         IN  IF r.status = "raise" THEN r
             ELSE FromXarrayLoop(cs, k + 1, tol,
                    [offset |-> (c.name :> r.val.offset) @@ acc.offset,
                     resolution |-> (c.name :> r.val.resolution) @@ acc.resolution,
                     units |-> (c.name :> c.unit) @@ acc.units,
                     shape |-> (c.name :> CoordLen(c)) @@ acc.shape,
                     order |-> Append(acc.order, c.name)])

\* ArrayInfo.from_xarray
ArrayInfo_from_xarray(arr, rel_abs_tolerances) ==
    LET r == FromXarrayLoop(arr.coords, 1, rel_abs_tolerances,
                [offset |-> NoDict, resolution |-> NoDict, units |-> NoDict,
                 shape |-> NoDict, order |-> <<>>])
    IN  IF r.status = "raise" THEN r
        ELSE \* return cls(offset, resolution, units, order)
             ArrayInfo_new(<<r.val.offset, r.val.resolution, r.val.units, r.val.order>>)

-----------------------------------------------------------------------------
(* SpecInfo: a labelled array and ArrayInfo.from_xarray of it.              *)

CoordArrays(name) ==
    {[name |-> name, numeric |-> TRUE, values |-> NumValues(v), unit |-> u]
        : v \in SeqsUpTo(0..MaxShape, 0, MaxCoordLen), u \in {None, Some("nm")}}
    \cup {[name |-> name, numeric |-> FALSE, values |-> Labels(CoordLabels), unit |-> None]}

LabelledArrays ==
    {[coords |-> <<>>]}
    \cup {[coords |-> <<c>>] : c \in CoordArrays("x")}
    \cup {[coords |-> <<c1, c2>>] : c1 \in CoordArrays("y"), c2 \in CoordArrays("x")}

Tolerances ==
    {None, Some([rtol |-> None, atol |-> None]), Some([rtol |-> Some(0), atol |-> Some(TolScale)])}

InitInfo ==
    /\ xarr \in LabelledArrays
    /\ info = Idle
    /\ FacadeIdle /\ ParseIdle /\ CoordsIdle /\ ReverseIdle

\* ArrayInfo.from_xarray(arr, rel_abs_tolerances)
FromXarray ==
    /\ xarr # Idle
    /\ info = Idle
    /\ \E tol \in Tolerances :
        info' = [tol |-> tol, out |-> ArrayInfo_from_xarray(xarr, tol)]
    /\ UNCHANGED <<xarr, facadeVars, parseVars, coordVars, reverseVars>>

NextInfo == FromXarray

SpecInfo == InitInfo /\ [][NextInfo]_vars

NumericAxes(arr) == {k \in 1..Len(arr.coords) : arr.coords[k].numeric}

\* the summary the claim describes
ExpectedInfo(arr) ==
    LET names == {arr.coords[k].name : k \in 1..Len(arr.coords)}
        At(n) == arr.coords[CHOOSE k \in 1..Len(arr.coords) : arr.coords[k].name = n]
    IN  [offset |-> [n \in names |-> IF At(n).numeric THEN Some(At(n).values.num[1]) ELSE None],
         resolution |-> [n \in names |->
                            IF At(n).numeric THEN Some(At(n).values.num[2] - At(n).values.num[1])
                            ELSE None],
         units |-> [n \in names |-> At(n).unit],
         shape |-> [n \in names |-> CoordLen(At(n))],
         order |-> [k \in 1..Len(arr.coords) |-> arr.coords[k].name]]

\* C9: with the tolerance omitted, on an array with numeric axes that each
\* have at least two values, from_xarray returns the summary (offset = first
\* value, resolution = second minus first, None for a non-numeric axis), and
\* raises the non-monotonic error exactly when some numeric axis has second
\* minus first <= 0.
C9_ExactResolution ==
    (/\ info # Idle
     /\ ~info.tol.some
     /\ NumericAxes(xarr) # {}
     /\ \A k \in NumericAxes(xarr) : CoordLen(xarr.coords[k]) >= 2) =>
        IF \E k \in NumericAxes(xarr) : xarr.coords[k].values.num[2] - xarr.coords[k].values.num[1] <= 0
        THEN info.out = Raise("ValueError", "Resolution is not monotonically increasing")
        ELSE info.out = Return(ExpectedInfo(xarr))

-----------------------------------------------------------------------------
(* The whole program: any of the above.                                     *)

Init == InitFacade \/ InitParse \/ InitCoords \/ InitReverse \/ InitInfo

Next == NextFacade \/ NextParse \/ NextCoords \/ NextReverse \/ NextInfo

Spec == Init /\ [][Next]_vars

====
